---------------------------- MODULE Spec2Model ----------------------------
(***************************************************************************)
(* OpenClaw Memory Sync v2 (SillyTavern extension), src/index.js.          *)
(*                                                                         *)
(* The extension runs on the browser's single-threaded event loop.  Every  *)
(* action below is one run-to-completion step of that loop: a host event   *)
(* handler, a timer callback, a settings handler, or the continuation of   *)
(* an async function after the `await fetch(...)` it was suspended on.     *)
(* Strings are sequences of UTF-16 code units.                             *)
(***************************************************************************)
EXTENDS Integers, Sequences, FiniteSets, TLC

\* ------------------------------------------------------------------------
\* Bounds of the model (not program constants)
\* ------------------------------------------------------------------------
MaxEvents == 3     \* host events, clicks and settings changes in a run
MaxTicks == 2      \* minutes that pass in a run
MaxTasks == 2      \* async invocations suspended at the same time

\* ------------------------------------------------------------------------
\* Program constants
\* ------------------------------------------------------------------------
DefaultIdleTimeoutMinutes == 5
DefaultMaxBufferSize == 100
HashPrefixLen == 200
HashesKept == 500
MsPerMinute == 60000

Int32Max == 2147483647
Int32Min == -2147483647 - 1

NULL == 0

defaultSettings ==
  [ enabled              |-> TRUE,
    realtimeSync         |-> TRUE,
    fullConversationSync |-> TRUE,
    idleTimeoutMinutes   |-> DefaultIdleTimeoutMinutes,
    offlineBuffer        |-> TRUE,
    maxBufferSize        |-> DefaultMaxBufferSize,
    dedup                |-> TRUE,
    showNotifications    |-> TRUE,
    showErrors           |-> FALSE ]

\* ------------------------------------------------------------------------
\* Strings and numbers
\* ------------------------------------------------------------------------
Min(a, b) == IF a < b THEN a ELSE b

\* s.substring(0, n)
Substring0(s, n) == SubSeq(s, 1, Min(n, Len(s)))

\* ECMAScript ToInt32 of a + b, for a and b already in the int32 range
\* (computed without leaving that range).
AddInt32(a, b) ==
  IF a >= 0 /\ b >= 0 /\ a > Int32Max - b
    THEN ((a - Int32Max) - 1) + ((b - Int32Max) - 1)
  ELSE IF a < 0 /\ b < 0 /\ a < Int32Min - b
    THEN ((a + Int32Max) + 1) + ((b + Int32Max) + 1)
  ELSE a + b

\* ToInt32 of -a
NegInt32(a) == IF a = Int32Min THEN Int32Min ELSE 0 - a

\* h << n on int32
RECURSIVE ShiftLeft(_, _)
ShiftLeft(h, n) == IF n = 0 THEN h ELSE ShiftLeft(AddInt32(h, h), n - 1)

\* one round of the loop of hashMessage:
\*   hash = ((hash << 5) - hash) + chr; hash |= 0;
HashStep(hash, chr) == AddInt32(AddInt32(ShiftLeft(hash, 5), NegInt32(hash)), chr)

RECURSIVE HashLoop(_, _, _)
HashLoop(str, i, hash) ==
  IF i > Len(str) THEN hash ELSE HashLoop(str, i + 1, HashStep(hash, str[i]))

\* the character of digit d in Number.prototype.toString(radix)
DigitChar(d) == IF d < 10 THEN 48 + d ELSE 87 + d

RECURSIVE NatToString(_, _)
NatToString(n, radix) ==
  IF n < radix THEN <<DigitChar(n)>>
  ELSE NatToString(n \div radix, radix) \o <<DigitChar(n % radix)>>

\* the digits of -n for n < 0 (never negates n itself, so Int32Min is fine)
RECURSIVE NegToString(_, _)
NegToString(n, radix) ==
  LET d == (radix - (n % radix)) % radix
      q == (n + d) \div radix
  IN  IF q = 0 THEN <<DigitChar(d)>>
      ELSE NegToString(q, radix) \o <<DigitChar(d)>>

\* n.toString(radix) for an integer n
NumberToString(n, radix) ==
  IF n < 0 THEN <<45>> \o NegToString(n, radix) ELSE NatToString(n, radix)

\* hashMessage(userMsg, assistantMsg); a missing text is the empty string,
\* as (x || '') makes it
hashMessage(userMsg, assistantMsg) ==
  LET str == Substring0(userMsg, HashPrefixLen) \o <<124>>
               \o Substring0(assistantMsg, HashPrefixLen)
  IN  NumberToString(HashLoop(str, 1, 0), 36)

\* 'full_' + conversationHash
FullKey(conversationHash) == <<102, 117, 108, 108, 95>> \o conversationHash

\* parseInt(text): optional sign, then the leading decimal digits; NaN when
\* there is none.  The result is [nan, val].
IsDigit(c) == c >= 48 /\ c <= 57

RECURSIVE ParseDigits(_, _, _)
ParseDigits(s, i, acc) ==
  IF i > Len(s) \/ ~IsDigit(s[i]) THEN acc
  ELSE ParseDigits(s, i + 1, acc * 10 + (s[i] - 48))

parseInt(s) ==
  LET neg  == Len(s) >= 1 /\ s[1] = 45
      from == IF Len(s) >= 1 /\ (s[1] = 45 \/ s[1] = 43) THEN 2 ELSE 1
  IN  IF from > Len(s) \/ ~IsDigit(s[from]) THEN [nan |-> TRUE, val |-> 0]
      ELSE [nan |-> FALSE,
            val |-> IF neg THEN 0 - ParseDigits(s, from, 0)
                    ELSE ParseDigits(s, from, 0)]

\* parseInt(text) || dflt : NaN and 0 are falsy
ParseIntOr(s, dflt) ==
  LET r == parseInt(s) IN IF r.nan \/ r.val = 0 THEN dflt ELSE r.val


\* arr.slice(-n)
SliceLast(arr, n) ==
  IF Len(arr) <= n THEN arr ELSE SubSeq(arr, Len(arr) - n + 1, Len(arr))

Range(seq) == {seq[i] : i \in 1..Len(seq)}

Count(seq, x) == Cardinality({i \in 1..Len(seq) : seq[i] = x})

\* Set.prototype.has and Set.prototype.add on an insertion-ordered Set, kept
\* as a sequence
SetHasNothing(set, x) == FALSE

SetHas(set, x) == x \in Range(set)

SetAdd(set, x) == IF SetHas(set, x) THEN set ELSE Append(set, x)

\* seq without its i-th element
RemoveAt(seq, i) == SubSeq(seq, 1, i - 1) \o SubSeq(seq, i + 1, Len(seq))

\* ------------------------------------------------------------------------
\* The host (SillyTavern) and the inputs the model draws
\* ------------------------------------------------------------------------
NoChat == ""
ChatIds == {"A", "B"}

UserText == <<117>>                       \* "u"
AiTexts == << <<97>>, <<98>>, <<99>> >>   \* "a", "b", "c"

Msg(isUser, isSystem, text) == [is_user |-> isUser, is_system |-> isSystem, mes |-> text]

\* conversation B has a history when the model starts; A is new
InitialChats ==
  [c \in ChatIds |->
     IF c = "B" THEN << Msg(FALSE, TRUE, <<115>>), Msg(TRUE, FALSE, <<113>>),
                        Msg(FALSE, FALSE, <<114>>) >>
     ELSE << >>]

\* what the user can leave in the two number fields: "", "0", "1", "2", "-1"
NumberInputs == { << >>, <<48>>, <<49>>, <<50>>, <<45, 49>> }

Outcomes == {"ok", "http", "error"}

\* hashMessage over the texts of the model, computed once
HashedTexts ==
  {<< >>, UserText} \cup Range(AiTexts)
    \cup UNION {{InitialChats[id][i].mes : i \in 1..Len(InitialChats[id])} : id \in ChatIds}
    \cup {NumberToString(n, 10) : n \in 0..16}

HashTable == [pair \in HashedTexts \X HashedTexts |-> hashMessage(pair[1], pair[2])]

Hashed(userMsg, assistantMsg) ==
  IF <<userMsg, assistantMsg>> \in DOMAIN HashTable
    THEN HashTable[<<userMsg, assistantMsg>>]
  ELSE hashMessage(userMsg, assistantMsg)

VARIABLES
  settings,          \* window.extension_settings['openclaw-sync']
  idleTimer,         \* handle of the last setTimeout, NULL before the first
  lastSyncedChatId,  \* NoChat stands for null
  syncedHashes,      \* the Set, in insertion order
  localStorage,      \* the two records the extension keeps there, and the
                     \* keys whose stored text JSON.parse rejects
  timers,            \* the host's armed timeouts: {[id, due]}
  timerSeq,          \* last handle setTimeout returned
  tasks,             \* async invocations suspended on `await fetch(...)`
  hung,              \* the event loop is stuck in a loop that cannot end
  chatId,            \* SillyTavern.getContext().chatId
  chats,             \* the host's conversations; chats[chatId] is context.chat
  now,               \* the clock, in ms
  used,              \* how much of each bound the run has used
  obs                \* history of the run, read by the properties only

vars == << settings, idleTimer, lastSyncedChatId, syncedHashes, localStorage,
           timers, timerSeq, tasks, hung, chatId, chats, now, used, obs >>

\* The extension's own state as one value, so that the calls a handler makes
\* compose: each function below maps the state before the call to the state
\* after it.
Cur ==
  [ settings |-> settings, idleTimer |-> idleTimer,
    lastSyncedChatId |-> lastSyncedChatId, syncedHashes |-> syncedHashes,
    localStorage |-> localStorage, timers |-> timers, timerSeq |-> timerSeq,
    tasks |-> tasks, hung |-> hung, obs |-> obs ]

Commit(p) ==
  /\ settings' = p.settings
  /\ idleTimer' = p.idleTimer
  /\ lastSyncedChatId' = p.lastSyncedChatId
  /\ syncedHashes' = p.syncedHashes
  /\ localStorage' = p.localStorage
  /\ timers' = p.timers
  /\ timerSeq' = p.timerSeq
  /\ tasks' = p.tasks
  /\ hung' = p.hung
  /\ obs' = p.obs

\* a handler ran and left the extension in state q; the run keeps to the
\* bound on suspended invocations
Run(q) == Len(q.tasks) <= MaxTasks /\ Commit(q)

\* localStorage of a browser profile the extension never wrote to
EmptyStorage ==
  [openclaw_sync_hashes |-> << >>, openclaw_sync_buffer |-> << >>, unparsable |-> {}]

NoFlush == [buffer |-> << >>, results |-> << >>, remaining |-> << >>]

\* maxBufferSize values found in window.extension_settings at load: the
\* default, or a small capacity the user saved in an earlier session
StoredMaxBufferSizes == {DefaultMaxBufferSize, 2}

\* the history the properties read, before anything happened
InitialObs ==
  [ turnSeq |-> 0, okTurns |-> << >>, failed |-> FALSE,
    dedupSent |-> << >>, skipped |-> {},
    pushes |-> << >>, caps |-> {}, flushSaved |-> FALSE,
    fullSent |-> << >>, flushOk |-> << >>,
    okHashes |-> {}, fullOk |-> {}, fullFailed |-> {}, fullRetried |-> {},
    lastFlush |-> NoFlush, lastTurn |-> [at |-> 0, idle |-> 0, n |-> 0] ]

Init ==
  /\ \E max \in StoredMaxBufferSizes :
       settings = [defaultSettings EXCEPT !.maxBufferSize = max]
  /\ idleTimer = NULL
  /\ lastSyncedChatId = NoChat
  /\ syncedHashes = << >>
  /\ localStorage = EmptyStorage
  /\ timers = {}
  /\ timerSeq = 0
  /\ tasks = << >>
  /\ hung = FALSE
  /\ chatId = "A"
  /\ chats = InitialChats
  /\ now = 0
  /\ used = [events |-> 0, turns |-> 0, ticks |-> 0]
  /\ obs = InitialObs


\* ------------------------------------------------------------------------
\* Offline buffer
\* ------------------------------------------------------------------------
\* JSON.parse(localStorage.getItem(BUFFER_STORAGE_KEY)); the payloads are
\* plain data, which JSON.stringify and JSON.parse hand back unchanged.  A
\* stored text that JSON.parse rejects is caught: [].
getBuffer(p) ==
  IF "openclaw_sync_buffer" \in p.localStorage.unparsable THEN << >>
  ELSE p.localStorage.openclaw_sync_buffer

\* setItem replaces the stored text, parsable or not
saveBuffer(p, buffer) ==
  [p EXCEPT !.localStorage.openclaw_sync_buffer = buffer,
            !.localStorage.unparsable = @ \ {"openclaw_sync_buffer"}]

\* while (buffer.length > max) buffer.shift();   for max >= 0
RECURSIVE ShiftWhileOver(_, _)
ShiftWhileOver(buffer, max) ==
  IF Len(buffer) > max THEN ShiftWhileOver(Tail(buffer), max) ELSE buffer

\* addToBuffer with the trim taking the newest entries: buffer.pop() in
\* place of buffer.shift()
addToBufferPops(p, payload) ==
  LET max == p.settings.maxBufferSize
      q   == [p EXCEPT !.obs.pushes = Append(@, payload), !.obs.caps = @ \cup {max}]
  IN  IF max < 0 THEN [q EXCEPT !.hung = TRUE]
      ELSE saveBuffer(q, SubSeq(Append(getBuffer(q), payload), 1,
                                Min(max, Len(getBuffer(q)) + 1)))

\* addToBuffer(payload).  With max < 0 the loop never ends (shift() on the
\* empty array leaves its length 0 > max): the call does not return, nothing
\* is saved, and the event loop serves no further callback.
addToBuffer(p, payload) ==
  LET max == p.settings.maxBufferSize
      q   == [p EXCEPT !.obs.pushes = Append(@, payload), !.obs.caps = @ \cup {max}]
  IN  IF max < 0 THEN [q EXCEPT !.hung = TRUE]
      ELSE saveBuffer(q, ShiftWhileOver(Append(getBuffer(q), payload), max))

\* ------------------------------------------------------------------------
\* Idle timer
\* ------------------------------------------------------------------------
\* a clearTimeout that cancels nothing
clearTimeoutNothing(ts, id) == ts

\* clearTimeout(id): a handle that is not armed (fired, or NULL) is ignored
clearTimeout(ts, id) == {t \in ts : t.id # id}

\* setTimeout(callback, delay), returning handle id: the callback runs once,
\* not before `delay` ms have passed
setTimeout(id, delay) == [id |-> id, due |-> now + delay, delay |-> delay]

resetIdleTimer(p) ==
  IF ~p.settings.fullConversationSync THEN p
  ELSE LET id == p.timerSeq + 1
           kept == IF p.idleTimer # NULL THEN clearTimeout(p.timers, p.idleTimer)
                   ELSE p.timers
       IN  [p EXCEPT !.timers = kept \cup
                        {setTimeout(id, p.settings.idleTimeoutMinutes * MsPerMinute)},
                     !.idleTimer = id,
                     !.timerSeq = id]

\* ------------------------------------------------------------------------
\* Async invocations
\* ------------------------------------------------------------------------
\* One invocation suspended on a fetch: who started it (caller), the function
\* whose fetch is pending (pc), that function's locals.
Task(caller, pc, payload, hash, buffer, k, remaining, results) ==
  [caller |-> caller, pc |-> pc, payload |-> payload, hash |-> hash,
   buffer |-> buffer, k |-> k, remaining |-> remaining, results |-> results]

Suspended(before, after) == Len(after.tasks) > Len(before.tasks)

saveSyncedHashes(p) ==
  [p EXCEPT !.localStorage.openclaw_sync_hashes = SliceLast(p.syncedHashes, HashesKept),
            !.localStorage.unparsable = @ \ {"openclaw_sync_hashes"}]

\* a loadSyncedHashes that answers a record it cannot parse by clearing the
\* whole of the extension's storage
loadSyncedHashesClearsStorage(p) ==
  IF "openclaw_sync_hashes" \in p.localStorage.unparsable
    THEN [p EXCEPT !.syncedHashes = << >>,
                   !.localStorage = [openclaw_sync_hashes |-> << >>,
                                     openclaw_sync_buffer |-> << >>,
                                     unparsable |-> {}]]
  ELSE [p EXCEPT !.syncedHashes = SliceLast(p.localStorage.openclaw_sync_hashes, HashesKept)]

\* loadSyncedHashes() at startup, syncedHashes being the new Set() of line 44:
\* a stored text that JSON.parse rejects is caught and the Set stays empty
loadSyncedHashes(p) ==
  IF "openclaw_sync_hashes" \in p.localStorage.unparsable
    THEN [p EXCEPT !.syncedHashes = << >>]
  ELSE [p EXCEPT !.syncedHashes = SliceLast(p.localStorage.openclaw_sync_hashes, HashesKept)]

\* flushBuffer() up to its first await.  `payload` is the caller's own
\* payload (syncMessage's), which its catch block uses.
flushBuffer(p, caller, payload) ==
  LET buffer == getBuffer(p)
  IN  IF Len(buffer) = 0 THEN p
      ELSE [p EXCEPT !.tasks = Append(@, Task(caller, "flushBuffer", payload, << >>,
                                               buffer, 1, << >>, << >>))]

\* The catch block of syncMessage, then the rest of the MESSAGE_RECEIVED
\* handler: resetIdleTimer(), unless toastr.warning threw out of syncMessage
\* into the handler's own catch.
syncMessageCatch(p, payload, toastrThrows) ==
  LET q == IF p.settings.offlineBuffer THEN addToBuffer(p, payload) ELSE p
  IN  IF q.hung THEN q
      ELSE IF q.settings.showErrors /\ toastrThrows THEN q
      ELSE resetIdleTimer(q)

\* syncMessage(userMessage, assistantMessage, chatId) up to its await
syncMessage(p, userMessage, assistantMessage, cid) ==
  IF ~p.settings.enabled \/ ~p.settings.realtimeSync THEN p
  ELSE
    LET hash == Hashed(userMessage, assistantMessage)
        payload == [type |-> "message", userMessage |-> userMessage,
                    assistantMessage |-> assistantMessage, chatId |-> cid,
                    timestamp |-> now, turn |-> p.obs.turnSeq + 1]
        inFlight == \E i \in 1..Len(p.tasks) :
                      /\ p.tasks[i].pc = "syncMessage"
                      /\ p.tasks[i].hash = hash
        q == IF p.settings.dedup
               THEN saveSyncedHashes([p EXCEPT !.syncedHashes = SetAdd(@, hash),
                                               !.obs.dedupSent = Append(@, hash)])
             ELSE p
    IN  IF p.settings.dedup /\ SetHas(p.syncedHashes, hash)
          THEN [p EXCEPT !.obs.skipped = @ \cup {[hash |-> hash, inFlight |-> inFlight]}]
        ELSE [q EXCEPT !.obs.turnSeq = @ + 1,
                       !.tasks = Append(@, Task("MESSAGE_RECEIVED", "syncMessage", payload,
                                                hash, << >>, 0, << >>, << >>))]

\* syncMessage after its fetch settled (task i), then the rest of the handler
syncMessageResume(p, i, outcome, toastrThrows) ==
  LET t  == p.tasks[i]
      p0 == [p EXCEPT !.tasks = RemoveAt(@, i)]
  IN  IF outcome = "ok"
        THEN LET p1 == [p0 EXCEPT !.obs.okTurns = Append(@, t.payload.turn),
                                  !.obs.okHashes = @ \cup {t.hash}]
             IN  IF p1.settings.showNotifications /\ toastrThrows
                   THEN syncMessageCatch(p1, t.payload, toastrThrows)
                 ELSE LET q == flushBuffer(p1, "MESSAGE_RECEIVED", t.payload)
                      IN  IF Suspended(p1, q) THEN q ELSE resetIdleTimer(q)
      ELSE syncMessageCatch([p0 EXCEPT !.obs.failed = TRUE], t.payload, toastrThrows)

\* a flush that stops on a non-2xx answer as it does on a transport error
FlushStopsOnAnyFailure(outcome) == outcome # "ok"

\* the loop of flushBuffer is left early (`break`) in its catch block only:
\* when the fetch rejected
FlushStops(outcome) == outcome = "error"

\* flushBuffer after the fetch of entry k settled (task i): the rest of the
\* loop body, then either the next fetch or saveBuffer(remaining) and the
\* return to the caller.
flushBufferResume(p, i, outcome, toastrThrows) ==
  LET t         == p.tasks[i]
      entry     == t.buffer[t.k]
      remaining == IF outcome = "ok" THEN t.remaining ELSE Append(t.remaining, entry)
      results   == Append(t.results, outcome)
      p1 == IF outcome = "ok"
              THEN [p EXCEPT !.obs.okTurns = Append(@, entry.turn),
                             !.obs.flushOk = Append(@, entry),
                             !.obs.okHashes =
                               @ \cup {Hashed(entry.userMessage, entry.assistantMessage)}]
            ELSE [p EXCEPT !.obs.failed = TRUE]
  IN  IF ~FlushStops(outcome) /\ t.k < Len(t.buffer)
        THEN [p1 EXCEPT !.tasks[i].k = t.k + 1,
                        !.tasks[i].remaining = remaining,
                        !.tasks[i].results = results]
      ELSE
        LET q == saveBuffer([p1 EXCEPT !.tasks = RemoveAt(@, i),
                                       !.obs.flushSaved = TRUE,
                                       !.obs.lastFlush = [buffer |-> t.buffer,
                                                          results |-> results,
                                                          remaining |-> remaining]],
                            remaining)
            threw == /\ Len(remaining) = 0
                     /\ q.settings.showNotifications
                     /\ toastrThrows
        IN  IF t.caller = "MESSAGE_RECEIVED"
              THEN IF threw THEN syncMessageCatch(q, t.payload, toastrThrows)
                   ELSE resetIdleTimer(q)
            ELSE q


\* ------------------------------------------------------------------------
\* Full conversation sync
\* ------------------------------------------------------------------------
\* the message list of the payload: system entries are left out
RECURSIVE BuildMessages(_, _)
BuildMessages(chat, i) ==
  IF i > Len(chat) THEN << >>
  ELSE IF chat[i].is_system THEN BuildMessages(chat, i + 1)
  ELSE << [role |-> IF chat[i].is_user THEN "user" ELSE "assistant",
           content |-> chat[i].mes] >> \o BuildMessages(chat, i + 1)

\* hashMessage(chat.length.toString(), chat[chat.length - 1]?.mes || '')
ConversationHash(chat) == Hashed(NumberToString(Len(chat), 10), chat[Len(chat)].mes)

FullPayload(chat, cid) ==
  LET messages == BuildMessages(chat, 1)
  IN  [type |-> "full_conversation", chatId |-> cid, messageCount |-> Len(messages),
       messages |-> messages, timestamp |-> now]

\* a syncFullConversation that stores the fingerprint when it submits the
\* snapshot, as syncMessage does, not when the answer arrives
syncFullConversationAddsFirst(p, chat, cid, caller) ==
  IF ~p.settings.enabled \/ ~p.settings.fullConversationSync THEN p
  ELSE IF Len(chat) < 2 THEN p
  ELSE LET conversationHash == ConversationHash(chat)
       IN  IF SetHas(p.syncedHashes, FullKey(conversationHash)) THEN p
           ELSE saveSyncedHashes(
                  [p EXCEPT !.tasks = Append(@, Task(caller, "syncFullConversation",
                                                     FullPayload(chat, cid), conversationHash,
                                                     << >>, 0, << >>, << >>)),
                            !.syncedHashes = SetAdd(@, FullKey(conversationHash)),
                            !.obs.fullSent = Append(@, conversationHash),
                            !.obs.fullRetried =
                              @ \cup ({conversationHash} \cap p.obs.fullFailed)])

\* syncFullConversation() up to its await; chat and cid are what
\* SillyTavern.getContext() returns at the time of the call
syncFullConversation(p, chat, cid, caller) ==
  IF ~p.settings.enabled \/ ~p.settings.fullConversationSync THEN p
  ELSE IF Len(chat) < 2 THEN p
  ELSE LET conversationHash == ConversationHash(chat)
       IN  IF SetHas(p.syncedHashes, FullKey(conversationHash)) THEN p
           ELSE [p EXCEPT !.tasks = Append(@, Task(caller, "syncFullConversation",
                                                   FullPayload(chat, cid), conversationHash,
                                                   << >>, 0, << >>, << >>)),
                          !.obs.fullSent = Append(@, conversationHash),
                          !.obs.fullRetried =
                            @ \cup ({conversationHash} \cap p.obs.fullFailed)]

\* the CHAT_CHANGED handler after `await syncFullConversation()`
chatChangedRest(p, cid) == resetIdleTimer([p EXCEPT !.lastSyncedChatId = cid])

\* syncFullConversation after its fetch settled (task i), then the rest of
\* its caller.  A throwing toastr.info is caught and logged at line 290.
syncFullConversationResume(p, i, outcome, cid) ==
  LET t  == p.tasks[i]
      p0 == [p EXCEPT !.tasks = RemoveAt(@, i)]
      p1 == IF outcome = "ok"
              THEN saveSyncedHashes([p0 EXCEPT !.syncedHashes = SetAdd(@, FullKey(t.hash)),
                                               !.obs.fullOk = @ \cup {t.hash}])
            ELSE [p0 EXCEPT !.obs.failed = TRUE, !.obs.fullFailed = @ \cup {t.hash}]
  IN  IF t.caller = "CHAT_CHANGED" THEN chatChangedRest(p1, cid) ELSE p1

\* ------------------------------------------------------------------------
\* Event handlers
\* ------------------------------------------------------------------------
\* the nearest user message before messageIndex (0-based), '' when none
RECURSIVE PrecedingUserText(_, _)
PrecedingUserText(chat, i) ==
  IF i < 0 THEN << >>
  ELSE IF chat[i + 1].is_user THEN chat[i + 1].mes
  ELSE PrecedingUserText(chat, i - 1)

\* the MESSAGE_RECEIVED handler, up to the await inside syncMessage or to
\* its end
onMessageReceived(p, chat, cid, messageIndex) ==
  IF ~p.settings.enabled THEN p
  ELSE IF Len(chat) < 2 THEN p
  ELSE IF messageIndex + 1 > Len(chat) THEN p
  ELSE IF chat[messageIndex + 1].is_user THEN p
  ELSE LET p0 == [p EXCEPT !.obs.lastTurn =
                     [at |-> now, idle |-> p.settings.idleTimeoutMinutes, n |-> @.n + 1]]
           q  == syncMessage(p0, PrecedingUserText(chat, messageIndex - 1),
                             chat[messageIndex + 1].mes, cid)
       IN  IF Suspended(p0, q) THEN q ELSE resetIdleTimer(q)

\* the CHAT_CHANGED handler, up to the await inside syncFullConversation or
\* to its end
onChatChanged(p, chat, cid) ==
  IF p.lastSyncedChatId # NoChat
    THEN LET q == syncFullConversation(p, chat, cid, "CHAT_CHANGED")
         IN  IF Suspended(p, q) THEN q ELSE chatChangedRest(q, cid)
  ELSE chatChangedRest(p, cid)

\* the jQuery ready handler on a freshly loaded page: loadSyncedHashes(),
\* then the settings panel and the event hooks are set up
main(p) ==
  loadSyncedHashes([p EXCEPT !.idleTimer = NULL, !.lastSyncedChatId = NoChat,
                             !.syncedHashes = << >>, !.timers = {}, !.timerSeq = 0,
                             !.tasks = << >>])

\* ------------------------------------------------------------------------
\* Actions
\* ------------------------------------------------------------------------
Use(what) == used' = [used EXCEPT ![what] = @ + 1]

UseEvent == used.events < MaxEvents /\ Use("events")

\* The host appends a user message and the character's reply to the open
\* conversation and emits MESSAGE_RECEIVED for the reply.  A text not used
\* before is always the next one of AiTexts.
HostTurn ==
  \E n \in 1..Len(AiTexts) :
    /\ ~hung
    /\ used.events < MaxEvents
    /\ n <= used.turns + 1
    /\ LET chat == chats[chatId] \o << Msg(TRUE, FALSE, UserText),
                                       Msg(FALSE, FALSE, AiTexts[n]) >>
       IN  /\ chats' = [chats EXCEPT ![chatId] = chat]
           /\ Run(onMessageReceived(Cur, chat, chatId, Len(chat) - 1))
    /\ used' = [used EXCEPT !.events = @ + 1, !.turns = @ + 1]
    /\ UNCHANGED << chatId, now >>

\* The host emits MESSAGE_RECEIVED again for a message already in the
\* conversation (a duplicate event).
MessageReceivedAgain ==
  \E messageIndex \in 0..(Len(chats[chatId]) - 1) :
    /\ ~hung
    /\ Run(onMessageReceived(Cur, chats[chatId], chatId, messageIndex))
    /\ UseEvent
    /\ UNCHANGED << chatId, chats, now >>

\* The user opens conversation c; the host loads it and emits CHAT_CHANGED.
ChatChanged ==
  \E c \in ChatIds :
    /\ ~hung
    /\ Run(onChatChanged(Cur, chats[c], c))
    /\ chatId' = c
    /\ UseEvent
    /\ UNCHANGED << chats, now >>

\* An armed timeout that is due fires: the callback of resetIdleTimer.
IdleTimeout ==
  \E t \in timers :
    /\ ~hung
    /\ t.due <= now
    /\ Run(syncFullConversation([Cur EXCEPT !.timers = @ \ {t}],
                             chats[chatId], chatId, "idleTimer"))
    /\ UNCHANGED << chatId, chats, now, used >>

\* The fetch of a suspended syncMessage settles.
SyncMessageSettled ==
  \E i \in 1..Len(tasks), outcome \in Outcomes, toastrThrows \in BOOLEAN :
    /\ ~hung
    /\ tasks[i].pc = "syncMessage"
    /\ Run(syncMessageResume(Cur, i, outcome, toastrThrows))
    /\ UNCHANGED << chatId, chats, now, used >>

\* The fetch of a suspended flushBuffer settles.
FlushBufferSettled ==
  \E i \in 1..Len(tasks), outcome \in Outcomes, toastrThrows \in BOOLEAN :
    /\ ~hung
    /\ tasks[i].pc = "flushBuffer"
    /\ Run(flushBufferResume(Cur, i, outcome, toastrThrows))
    /\ UNCHANGED << chatId, chats, now, used >>

\* The fetch of a suspended syncFullConversation settles.
SyncFullConversationSettled ==
  \E i \in 1..Len(tasks), outcome \in Outcomes :
    /\ ~hung
    /\ tasks[i].pc = "syncFullConversation"
    /\ Run(syncFullConversationResume(Cur, i, outcome, chatId))
    /\ UNCHANGED << chatId, chats, now, used >>

\* #oc_flush click
OcFlushClick ==
  /\ ~hung
  /\ Run(flushBuffer(Cur, "oc_flush", << >>))
  /\ UseEvent
  /\ UNCHANGED << chatId, chats, now >>

\* change handlers of the settings panel; a checkbox's change event carries
\* the opposite of its state
SetSetting(field, value) ==
  /\ ~hung
  /\ settings' = [settings EXCEPT ![field] = value]
  /\ UseEvent
  /\ UNCHANGED << idleTimer, lastSyncedChatId, syncedHashes, localStorage, timers,
                  timerSeq, tasks, hung, chatId, chats, now, obs >>

OcEnabledChange == SetSetting("enabled", ~settings.enabled)
OcRealtimeChange == SetSetting("realtimeSync", ~settings.realtimeSync)
OcFullsyncChange == SetSetting("fullConversationSync", ~settings.fullConversationSync)
OcIdleChange ==
  \E text \in NumberInputs :
    SetSetting("idleTimeoutMinutes", ParseIntOr(text, DefaultIdleTimeoutMinutes))
OcBufferChange == SetSetting("offlineBuffer", ~settings.offlineBuffer)
OcBufmaxChange ==
  \E text \in NumberInputs :
    SetSetting("maxBufferSize", ParseIntOr(text, DefaultMaxBufferSize))
OcDedupChange == SetSetting("dedup", ~settings.dedup)
OcNotifyChange == SetSetting("showNotifications", ~settings.showNotifications)
OcErrorsChange == SetSetting("showErrors", ~settings.showErrors)

\* #oc_save click: the ten fields are read back from the form.  The
\* checkboxes show what their change handlers stored; the number fields hold
\* whatever text the user left in them.
OcSaveClick ==
  \E idleText \in NumberInputs, bufmaxText \in NumberInputs :
    /\ ~hung
    /\ settings' = [settings EXCEPT
                      !.idleTimeoutMinutes = ParseIntOr(idleText, DefaultIdleTimeoutMinutes),
                      !.maxBufferSize = ParseIntOr(bufmaxText, DefaultMaxBufferSize)]
    /\ UseEvent
    /\ UNCHANGED << idleTimer, lastSyncedChatId, syncedHashes, localStorage, timers,
                    timerSeq, tasks, hung, chatId, chats, now, obs >>

\* The page is reloaded: timers and pending requests of the old page are
\* gone, the module state is initialised anew (lines 42-44) and the ready
\* handler runs.  The host keeps the settings and localStorage.
Restart ==
  /\ ~hung
  /\ Run(main(Cur))
  /\ UseEvent
  /\ UNCHANGED << chatId, chats, now >>

\* One minute passes.  The clock is read through the armed timeouts only, so
\* the model lets time pass while it can still bring one of them to its
\* deadline within the run.
Tick ==
  /\ ~hung
  /\ used.ticks < MaxTicks
  /\ \E t \in timers :
        t.due > now /\ t.due <= now + (MaxTicks - used.ticks) * MsPerMinute
  /\ now' = now + MsPerMinute
  /\ Use("ticks")
  /\ UNCHANGED << settings, idleTimer, lastSyncedChatId, syncedHashes, localStorage,
                  timers, timerSeq, tasks, hung, chatId, chats, obs >>

Next ==
  \/ HostTurn
  \/ MessageReceivedAgain
  \/ ChatChanged
  \/ IdleTimeout
  \/ SyncMessageSettled
  \/ FlushBufferSettled
  \/ SyncFullConversationSettled
  \/ OcFlushClick
  \/ OcEnabledChange
  \/ OcRealtimeChange
  \/ OcFullsyncChange
  \/ OcIdleChange
  \/ OcBufferChange
  \/ OcBufmaxChange
  \/ OcDedupChange
  \/ OcNotifyChange
  \/ OcErrorsChange
  \/ OcSaveClick
  \/ Restart
  \/ Tick

Spec == Init /\ [][Next]_vars

\* ------------------------------------------------------------------------
\* Start from what earlier sessions left in localStorage
\* ------------------------------------------------------------------------
\* HashesKept fingerprints of earlier turns, oldest first (base-36 texts)
StoredHashes == [i \in 1..HashesKept |-> NumberToString(60466176 + i, 36)]

\* a turn an earlier session queued
StoredPayload ==
  [type |-> "message", userMessage |-> UserText, assistantMessage |-> <<122>>,
   chatId |-> "B", timestamp |-> 0, turn |-> 0]

\* a full fingerprint list; a fingerprint list that does not parse beside a
\* queue that does; a queue that does not parse beside a list that does
StoredStorages ==
  { [EmptyStorage EXCEPT !.openclaw_sync_hashes = StoredHashes],
    [EmptyStorage EXCEPT !.unparsable = {"openclaw_sync_hashes"},
                         !.openclaw_sync_buffer = << StoredPayload >>],
    [EmptyStorage EXCEPT !.unparsable = {"openclaw_sync_buffer"},
                         !.openclaw_sync_hashes = SubSeq(StoredHashes, 1, 1)] }

InitStored ==
  /\ settings = defaultSettings
  /\ idleTimer = NULL
  /\ lastSyncedChatId = NoChat
  /\ \E stored \in StoredStorages :
       /\ localStorage = stored
       /\ syncedHashes =
            loadSyncedHashes([syncedHashes |-> << >>, localStorage |-> stored]).syncedHashes
  /\ timers = {}
  /\ timerSeq = 0
  /\ tasks = << >>
  /\ hung = FALSE
  /\ chatId = "A"
  /\ chats = InitialChats
  /\ now = 0
  /\ used = [events |-> 0, turns |-> 0, ticks |-> 0]
  /\ obs = InitialObs

SpecStored == InitStored /\ [][Next]_vars


\* ------------------------------------------------------------------------
\* Properties
\* ------------------------------------------------------------------------
Buffer == localStorage.openclaw_sync_buffer

EndsWith(seq, suffix) ==
  /\ Len(suffix) <= Len(seq)
  /\ SubSeq(seq, Len(seq) - Len(suffix) + 1, Len(seq)) = suffix

\* the fetch of suspended invocation i settles in this step, with this result
MessageSettles(i, outcome, toastrThrows) ==
  /\ tasks[i].pc = "syncMessage"
  /\ Commit(syncMessageResume(Cur, i, outcome, toastrThrows))
  /\ UNCHANGED << chatId, chats, now, used >>

FullSettles(i, outcome) ==
  /\ tasks[i].pc = "syncFullConversation"
  /\ Commit(syncFullConversationResume(Cur, i, outcome, chatId))
  /\ UNCHANGED << chatId, chats, now, used >>

DeliveryFails(i) ==
  \E outcome \in {"http", "error"} :
    \/ \E toastrThrows \in BOOLEAN : MessageSettles(i, outcome, toastrThrows)
    \/ FullSettles(i, outcome)

\* a delivery is answered 2xx and the notification that follows does not throw
DeliverySucceeds(i) == MessageSettles(i, "ok", FALSE) \/ FullSettles(i, "ok")

NewTasks == {j \in 1..Len(tasks') : tasks'[j] \notin Range(tasks)}

\* C1: when a flush stops at entry k on a transport error, the queue it
\* persists ends with entry k and all entries after k, in their order.
C1_UntriedEntriesKept ==
  LET f == obs.lastFlush
      k == Len(f.results)
  IN  (k > 0 /\ f.results[k] = "error")
        => EndsWith(f.remaining, SubSeq(f.buffer, k, Len(f.buffer)))

\* C2: with a capacity of at least 1 configured, the persisted queue never
\* holds more than maxBufferSize entries.
C2_QueueWithinCapacity ==
  settings.maxBufferSize >= 1 => Len(Buffer) <= settings.maxBufferSize

\* C3: after N pushes made under one capacity M >= 1, with no flush having
\* rewritten the queue, the queue is the last min(N, M) pushed payloads in
\* push order.
C3_QueueKeepsMostRecent ==
  \A M \in obs.caps :
    (obs.caps = {M} /\ M >= 1 /\ ~obs.flushSaved) => Buffer = SliceLast(obs.pushes, M)

\* capacity 2, three failed turns T1, T2, T3: the queue is [T2, T3]
C3_Witness ==
  /\ obs.caps = {2}
  /\ ~obs.flushSaved
  /\ Len(obs.pushes) = 3
  /\ Buffer = << obs.pushes[2], obs.pushes[3] >>

\* C4: with dedup enabled at most one request is ever issued by syncMessage
\* for one fingerprint, and the FingerprintSet holds that fingerprint once.
C4_DuplicateSuppressed ==
  \A h \in Range(obs.dedupSent) :
    Count(obs.dedupSent, h) = 1 /\ Count(syncedHashes, h) = 1

\* the duplicate event fired while the first delivery was still in flight
C4_Witness ==
  \E s \in obs.skipped : s.inFlight /\ Count(obs.dedupSent, s.hash) = 1

\* C5: as long as every request was answered 2xx, each accepted turn has at
\* most one 2xx request, and exactly one once its delivery is no longer in
\* flight.
C5_ExactlyOneRequestPerTurn ==
  ~obs.failed =>
    \A n \in 1..obs.turnSeq :
      /\ Count(obs.okTurns, n) <= 1
      /\ (\A i \in 1..Len(tasks) :
            ~(tasks[i].pc = "syncMessage" /\ tasks[i].payload.turn = n))
           => Count(obs.okTurns, n) = 1

\* C6: a delivery of either kind that fails while offlineBuffer is enabled
\* (and the capacity is at least 1) leaves its payload in the queue.
C6_FailedDeliveryBuffered ==
  [][\A i \in 1..Len(tasks) :
       (DeliveryFails(i) /\ settings.offlineBuffer /\ settings.maxBufferSize >= 1)
         => tasks[i].payload \in Range(Buffer')]_vars

\* C7: a delivery of either kind answered 2xx starts a flush of the queue
\* (seen when the queue is not empty); a failed delivery starts none.
C7_SuccessStartsFlush ==
  [][\A i \in 1..Len(tasks) :
       /\ (DeliverySucceeds(i) /\ Len(Buffer) > 0)
            => \E j \in NewTasks : tasks'[j].pc = "flushBuffer"
       /\ DeliveryFails(i)
            => ~ \E j \in NewTasks : tasks'[j].pc = "flushBuffer"]_vars

\* C8: on a switch away from the tracked conversation A, which has a
\* snapshot not synced yet, the handler submits one full-conversation payload
\* with A's id and A's messages, the tracked id still being A.
C8_SwitchSyncsPrevious ==
  [][(/\ chatId' # chatId
      /\ lastSyncedChatId = chatId
      /\ settings.enabled /\ settings.fullConversationSync
      /\ Len(chats[chatId]) >= 2
      /\ FullKey(ConversationHash(chats[chatId])) \notin Range(syncedHashes))
       => /\ lastSyncedChatId' = lastSyncedChatId
          /\ Cardinality(NewTasks) = 1
          /\ \A j \in NewTasks :
               /\ tasks'[j].caller = "CHAT_CHANGED"
               /\ tasks'[j].payload.type = "full_conversation"
               /\ tasks'[j].payload.chatId = chatId
               /\ tasks'[j].payload.messages = BuildMessages(chats[chatId], 1)]_vars

\* C9: when the last turn event came before the armed timeout was due, the
\* timeout starts a full-conversation sync only once the time it was armed
\* with has passed since that turn event.
C9_IdleDebounce ==
  [][\A t \in timers :
       (/\ timers' = timers \ {t}
        /\ timerSeq' = timerSeq
        /\ Len(tasks') > Len(tasks)
        /\ obs.lastTurn.n > 0
        /\ obs.lastTurn.at < t.due)
         => now >= obs.lastTurn.at + t.delay]_vars

\* C10: no full-conversation snapshot (message count and last message text)
\* is submitted a second time.
C10_SnapshotSubmittedOnce ==
  \A h \in Range(obs.fullSent) : Count(obs.fullSent, h) = 1

\* the armed timeout t fires: this step is the timer callback
IdleFires(t) ==
  /\ t \in timers
  /\ t.due <= now
  /\ Commit(syncFullConversation([Cur EXCEPT !.timers = @ \ {t}],
                                 chats[chatId], chatId, "idleTimer"))
  /\ UNCHANGED << chatId, chats, now, used >>

\* C11: while dedup is disabled no step changes the FingerprintSet, in
\* memory or persisted, and an idle timeout over a conversation that can be
\* synced (sync and full sync enabled, at least 2 messages) submits it.
C11_DedupDisabledInert ==
  [][~settings.dedup =>
       /\ syncedHashes' = syncedHashes
       /\ localStorage'.openclaw_sync_hashes = localStorage.openclaw_sync_hashes
       /\ \A t \in timers :
            (/\ IdleFires(t)
             /\ settings.enabled /\ settings.fullConversationSync
             /\ Len(chats[chatId]) >= 2)
              => Len(tasks') = Len(tasks) + 1]_vars

\* C12: the FingerprintSet in memory never holds more than HashesKept
\* fingerprints, and it is the set a restart would load: the most recent
\* HashesKept of the persisted list.
C12_FingerprintSetBounded ==
  /\ Len(syncedHashes) <= HashesKept
  /\ "openclaw_sync_hashes" \notin localStorage.unparsable
       => syncedHashes = SliceLast(localStorage.openclaw_sync_hashes, HashesKept)

\* the fetch of the suspended flushBuffer i settles with `outcome`
FlushSettles(i, outcome, toastrThrows) ==
  /\ tasks[i].pc = "flushBuffer"
  /\ Commit(flushBufferResume(Cur, i, outcome, toastrThrows))
  /\ UNCHANGED << chatId, chats, now, used >>

\* the entries of buffer, from the i-th on, whose request was not answered 2xx
RECURSIVE Retained(_, _, _)
Retained(buffer, results, i) ==
  IF i > Len(results) THEN << >>
  ELSE IF results[i] = "ok" THEN Retained(buffer, results, i + 1)
  ELSE << buffer[i] >> \o Retained(buffer, results, i + 1)

\* C13: when the request of a flush for a queued entry is answered (2xx or
\* not), the flush goes on to the next entry if there is one; after the
\* last entry, the entries of the flush that the queue still holds are
\* exactly those answered non-2xx, in their original order.
C13_FlushContinuesPastHttpFailure ==
  [][\A i \in 1..Len(tasks) : \A outcome \in {"ok", "http"}, toastrThrows \in BOOLEAN :
       FlushSettles(i, outcome, toastrThrows) =>
         LET t == tasks[i]
             results == Append(t.results, outcome)
             kept == Retained(t.buffer, results, 1)
             InSnapshot(e) == e \in Range(t.buffer)
         IN  IF t.k < Len(t.buffer)
               THEN /\ Len(tasks') = Len(tasks)
                    /\ tasks'[i].pc = "flushBuffer"
                    /\ tasks'[i].k = t.k + 1
                    /\ Buffer' = Buffer
             ELSE SelectSeq(Buffer', InSnapshot) = kept]_vars

\* a flush of two entries: the first answered non-2xx, the second 2xx, and
\* the queue holds the first only
C13_Witness ==
  /\ Len(obs.lastFlush.buffer) = 2
  /\ obs.lastFlush.results = << "http", "ok" >>
  /\ Buffer = << obs.lastFlush.buffer[1] >>

\* C14: at most one idle countdown is armed in every state, and a countdown
\* that fires is the one armed last (idleTimer), never a cancelled one.
C14_OneCountdownArmed ==
  /\ [](Cardinality(timers) <= 1)
  /\ [][\A t \in timers : IdleFires(t) => t.id = idleTimer]_vars

\* two events armed the countdown at time 0 with the default timeout: the
\* first countdown was cancelled by the second rearm
C14_Witness ==
  /\ used.events = 2
  /\ timerSeq = 2
  /\ idleTimer = 2
  /\ timers = {[id |-> 2, due |-> DefaultIdleTimeoutMinutes * MsPerMinute,
                delay |-> DefaultIdleTimeoutMinutes * MsPerMinute]}

\* C15: in every state in which fullConversationSync is disabled no idle
\* countdown is armed.
C15_DisabledMeansQuiescent ==
  ~settings.fullConversationSync => timers = {}

\* C16: a message payload whose request was answered 2xx is not put in the
\* offline queue, neither by the step that handles the answer nor by the
\* end of the flush that step started, whether or not the success
\* notification throws.
C16_DeliveredNeverQueued ==
  [][\A i \in 1..Len(tasks) : \A toastrThrows \in BOOLEAN :
       (\/ MessageSettles(i, "ok", toastrThrows)
        \/ \E outcome \in Outcomes :
             /\ tasks[i].caller = "MESSAGE_RECEIVED"
             /\ FlushSettles(i, outcome, toastrThrows))
         => tasks[i].payload \notin Range(Buffer')]_vars

\* C17: whatever the user enters in the settings panel, idleTimeoutMinutes
\* and maxBufferSize are at least 1 in every state.
C17_SettingsAtLeastOne ==
  settings.idleTimeoutMinutes >= 1 /\ settings.maxBufferSize >= 1

\* the page is reloaded and the ready handler runs
Restarts ==
  /\ Commit(main(Cur))
  /\ used' = [used EXCEPT !.events = @ + 1]
  /\ UNCHANGED << chatId, chats, now >>

\* C18: a fingerprint list that does not parse reads as the empty set; a
\* startup leaves localStorage as it found it and does not hang, and loads
\* the fingerprint list when that one parses, whatever the queue record
\* holds; a queue that does not parse reads as empty, so that a failed
\* delivery leaves just its own payload queued and the fingerprint list
\* untouched.
C18_CorruptRecordReadsEmpty ==
  /\ []("openclaw_sync_hashes" \in localStorage.unparsable => syncedHashes = << >>)
  /\ [][Restarts =>
          /\ localStorage' = localStorage
          /\ ~hung'
          /\ "openclaw_sync_hashes" \notin localStorage.unparsable
               => syncedHashes' = SliceLast(localStorage.openclaw_sync_hashes, HashesKept)]_vars
  /\ [][\A i \in 1..Len(tasks) : \A outcome \in {"http", "error"} :
          (/\ MessageSettles(i, outcome, FALSE)
           /\ "openclaw_sync_buffer" \in localStorage.unparsable
           /\ settings.offlineBuffer /\ settings.maxBufferSize >= 1)
            => /\ Buffer' = << tasks[i].payload >>
               /\ "openclaw_sync_buffer" \notin localStorage'.unparsable
               /\ localStorage'.openclaw_sync_hashes = localStorage.openclaw_sync_hashes]_vars

\* after a conversation was tracked and a full sync submitted, the page was
\* reloaded over a fingerprint list that does not parse: the set is empty
\* and the stored queue is as it was
C18_Witness ==
  /\ "openclaw_sync_hashes" \in localStorage.unparsable
  /\ Len(obs.fullSent) > 0
  /\ lastSyncedChatId = NoChat
  /\ syncedHashes = << >>
  /\ Buffer = << StoredPayload >>

\* C19: the step of a flush that handles an answer (and, after the last
\* one, persists the result) keeps in the queue every entry that is not in
\* the flush's own snapshot: the payloads queued while it was suspended.
C19_FlushKeepsLaterEntries ==
  [][\A i \in 1..Len(tasks) : \A outcome \in Outcomes :
       FlushSettles(i, outcome, FALSE) =>
         \A k \in 1..Len(Buffer) :
           Buffer[k] \notin Range(tasks[i].buffer) => Buffer[k] \in Range(Buffer')]_vars

\* C20: no queued payload is sent by flushes in more than one request that
\* is answered 2xx.
C20_QueuedPayloadDeliveredOnce ==
  \A k \in 1..Len(obs.flushOk) : Count(obs.flushOk, obs.flushOk[k]) = 1

\* C23: addToBuffer returns, so the event loop is never stuck in it.
C23_AddToBufferTerminates ==
  ~hung

\* a fingerprint of a message turn: a hashMessage text without the 'full_'
\* prefix, which holds a character no base-36 text has
IsMessageFingerprint(h) == h # FullKey(SubSeq(h, 6, Len(h)))

\* the fingerprints of the queued payloads
QueuedHashes ==
  {Hashed(Buffer[k].userMessage, Buffer[k].assistantMessage) : k \in 1..Len(Buffer)}

\* the fingerprints of the turns whose request is pending
PendingHashes ==
  {tasks[i].hash : i \in {j \in 1..Len(tasks) : tasks[j].pc = "syncMessage"}}

\* C21: every message fingerprint in the FingerprintSet is that of a turn
\* that was answered 2xx, or is in the offline queue, or whose request is
\* still pending; so a turn that failed and was not queued is not suppressed.
C21_FingerprintMeansDeliveredOrQueued ==
  \A k \in 1..Len(syncedHashes) :
    IsMessageFingerprint(syncedHashes[k])
      => syncedHashes[k] \in obs.okHashes \cup QueuedHashes \cup PendingHashes

\* C22: every 'full_' fingerprint in the FingerprintSet is that of a
\* snapshot for which a request was answered 2xx, and the failure of a
\* full-conversation request puts no fingerprint in the set, in memory or
\* persisted.
C22_FullFingerprintMeansDelivered ==
  /\ [](\A k \in 1..Len(syncedHashes) :
          ~IsMessageFingerprint(syncedHashes[k])
            => \E h \in obs.fullOk : syncedHashes[k] = FullKey(h))
  /\ [][\A i \in 1..Len(tasks) : \A outcome \in {"http", "error"} :
          FullSettles(i, outcome) =>
            /\ syncedHashes' = syncedHashes
            /\ localStorage' = localStorage]_vars

\* a snapshot whose request failed was submitted again later and its
\* fingerprint is not in the set
C22_Witness ==
  \E h \in obs.fullRetried :
    /\ h \notin obs.fullOk
    /\ FullKey(h) \notin Range(syncedHashes)

============================================================================
